---------------------------- MODULE Spec2Model ----------------------------
(***************************************************************************)
(* Model of the Recall Desktop plugin's main process (packages/plugin):    *)
(* the subscription registry and event fan-out of RecallDesktopMain, the   *)
(* SDK lifecycle handlers (initSdk / shutdownSdk / setConfig) and the      *)
(* RecallSdkStore they read and write.                                     *)
(*                                                                         *)
(* One action is one turn of the main process's event loop: the            *)
(* synchronous part of an IPC handler up to its first await of a provider  *)
(* promise, the continuation that runs when that promise settles, the      *)
(* 'destroyed' callback of a webContents, or one provider event emission.  *)
(***************************************************************************)
EXTENDS Naturals, Sequences, FiniteSets, Bags

(***************************************************************************)
(* Bounds of the model.                                                    *)
(***************************************************************************)
NumConsumers == 2   \* webContents that ever exist
MaxCount == 2       \* cap on one (kind, webContents) reference count
MaxInFlight == 2    \* cap on handlers awaiting a provider promise at once
MaxListeners == 2   \* listeners a renderer ever adds through the client library
MaxHandlers == 2    \* example app: meeting-detected handlers suspended at once
MaxStarts == 3      \* example app: cap on the startRecording requests counted per window
MaxShutdowns == 2   \* shutdownSdk calls a client ever makes
MaxIssued == 4      \* subscribe/unsubscribe invokes a renderer ever sends

Consumers == 1..NumConsumers

\* Two of the fourteen members of RecallSdkEventType: the one kind that has
\* a side effect and one that has none.
Kinds == {"shutdown", "recording-started"}

\* Meeting window ids the example app sees.
Windows == {"w1", "w2"}

DefaultApiUrl == "https://us-east-1.recall.ai"
\* Values a client may send as apiUrl ("" is a string like any other).
Urls == {"", DefaultApiUrl, "https://eu-central-1.recall.ai"}

\* RecallSdkConfig
Configs ==
    [enabled : BOOLEAN, apiUrl : Urls, requestPermissionsOnStartup : BOOLEAN]

\* An optional field: <<>> when absent (undefined), <<v>> when present.
Optional(S) == {<<>>} \cup { <<v>> : v \in S }

\* Partial<RecallSdkConfig>, as a client may send it to setConfig.
Partials ==
    [enabled : Optional(BOOLEAN), apiUrl : Optional(Urls),
     requestPermissionsOnStartup : Optional(BOOLEAN)]

VARIABLES
    isInitialized,        \* RecallDesktopMain.isInitialized (IPC handlers registered)
    subscriptions,        \* Map<kind, Map<wcId, count>>
    trackedWebContents,   \* keys of Map<wcId, WebContents>
    sdkEventHandlers,     \* keys of Map<kind, handler>
    providerListeners,    \* per kind, handlers registered with RecallAiSdk.addEventListener
    destroyedListeners,   \* per webContents, callbacks registered with wc.once("destroyed")
    wcState,              \* per webContents: "alive" or "destroyed"
    config,               \* RecallSdkStore.config
    sdkInitialized,       \* RecallSdkStore.sdkInitialized
    inflight,             \* bag of handler invocations awaiting a provider promise
    out,                  \* what the latest step produced: a handler's reply or a fan-out
    netCount,             \* history: per (webContents, kind), subscribes minus effective unsubscribes
    clientListeners,      \* renderer of webContents 1: the listeners added so far, in order
    ipcQueue,             \* renderer of webContents 1: invokes sent and not yet handled by main
    issued,               \* history: every subscribe/unsubscribe invoke the renderer sent, in order
    applied,              \* history: the invokes main has handled, in order
    clientApi,            \* RecallDesktopClient.api: "api" (the preload bridge) or "null"
    activeRecordingWindowId, \* example app: state.ts, <<>> for null or <<windowId>>
    meetingHandlers,      \* example app: bag of meeting-detected handlers suspended at an await
    started               \* history: per window, startRecording requests issued and not
                          \* failed since the last recording-ended event for the window

vars == <<isInitialized, subscriptions, trackedWebContents, sdkEventHandlers,
          providerListeners, destroyedListeners, wcState, config, sdkInitialized,
          inflight, out, netCount, clientListeners, ipcQueue, issued, applied,
          clientApi, activeRecordingWindowId, meetingHandlers, started>>

clientVars == <<clientListeners, ipcQueue, issued, applied, clientApi>>

exampleVars == <<activeRecordingWindowId, meetingHandlers, started>>

rendererVars == <<clientVars, exampleVars>>

hubVars == <<subscriptions, trackedWebContents, sdkEventHandlers,
             providerListeners, destroyedListeners, wcState, netCount>>

(***************************************************************************)
(* JavaScript Map helpers (maps are functions on the set of present keys). *)
(***************************************************************************)
EmptyMap == [x \in {} |-> 0]

MapSet(m, key, v) == [x \in (DOMAIN m) \cup {key} |-> IF x = key THEN v ELSE m[x]]

MapDelete(m, key) == [x \in (DOMAIN m) \ {key} |-> m[x]]

\* map.get(id) || 0
GetOrZero(m, key) == IF key \in DOMAIN m THEN m[key] ELSE 0

\* The reference count the registry holds for (kind, webContents); 0 when absent.
Count(subs, k, c) == IF k \in DOMAIN subs THEN GetOrZero(subs[k], c) ELSE 0

(***************************************************************************)
(* The record of what a step produced.                                     *)
(***************************************************************************)
NoDelivery == [c \in Consumers |-> 0]

NoOut ==
    [op |-> "none", success |-> TRUE, message |-> "", calls |-> <<>>,
     ready |-> FALSE, chg |-> "absent", rejected |-> "", kind |-> "",
     handled |-> 0, delivered |-> NoDelivery, failed |-> {},
     steps |-> <<>>, effectFailed |-> FALSE, readyAtSend |-> FALSE,
     initCall |-> <<>>, channel |-> ""]

\* A handler invocation: the provider call it awaits (pc), the provider
\* calls it has made so far (calls), whether the SDK was initialized when
\* the request arrived (ready) and, for setConfig, what the partial does to
\* the stored apiUrl (chg): "absent", "same", "empty" or "changed".
Request(op, pc, calls, ready, chg) ==
    [op |-> op, pc |-> pc, calls |-> calls, ready |-> ready, chg |-> chg]

\* A handler's return value {success, message}, with the invocation's
\* history and the provider call whose rejection it reports ("" if none).
Reply(success, message, r, rejected) ==
    [NoOut EXCEPT !.op = r.op, !.success = success, !.message = message,
                  !.calls = r.calls, !.ready = r.ready, !.chg = r.chg,
                  !.rejected = rejected]

(***************************************************************************)
(* Subscription registry, consumer tracking and upstream listener binding. *)
(***************************************************************************)

\* Faulty variant of addDestroyedCleanup: the disconnect callback is
\* registered but the webContents is not put in trackedWebContents.
addDestroyedCleanupNoTrack(tracked, listeners, c) ==
    [tracked |-> tracked, listeners |-> [listeners EXCEPT ![c] = @ + 1]]

\* Faulty variant of addDestroyedCleanup: no trackedWebContents.has check.
addDestroyedCleanupUnguarded(tracked, listeners, c) ==
    [tracked |-> tracked \cup {c},
     listeners |-> [listeners EXCEPT ![c] = @ + 1]]

\* addDestroyedCleanup: track the webContents and register its one
\* 'destroyed' callback, unless it is tracked already.
addDestroyedCleanup(tracked, listeners, c) ==
    IF c \in tracked
    THEN [tracked |-> tracked, listeners |-> listeners]
    ELSE [tracked |-> tracked \cup {c},
          listeners |-> [listeners EXCEPT ![c] = @ + 1]]

\* SUBSCRIBE_EVENTS: map.set(id, (map.get(id) || 0) + 1), creating the kind's map.
subscribeCount(subs, k, c) ==
    LET map == IF k \in DOMAIN subs THEN subs[k] ELSE EmptyMap
        prev == GetOrZero(map, c)
    IN  MapSet(subs, k, MapSet(map, c, prev + 1))

\* Faulty variant of unsubscribeCount: the entry is deleted whatever its count.
unsubscribeCountDeletesAlways(subs, k, c) ==
    IF k \in DOMAIN subs THEN MapSet(subs, k, MapDelete(subs[k], c)) ELSE subs

\* Faulty variant of unsubscribeCount: the kind's whole map is cleared.
unsubscribeCountClearsKind(subs, k, c) ==
    IF k \in DOMAIN subs THEN MapSet(subs, k, EmptyMap) ELSE subs

\* Faulty variant of unsubscribeCount: a missing entry is written back
\* with count 0 instead of being left out.
unsubscribeCountCreatesEntry(subs, k, c) ==
    IF k \in DOMAIN subs
    THEN LET map == subs[k]
             prev == GetOrZero(map, c)
         IN  MapSet(subs, k, IF prev = 1 THEN MapDelete(map, c)
                             ELSE IF prev = 0 THEN MapSet(map, c, 0)
                             ELSE MapSet(map, c, prev - 1))
    ELSE subs

\* Faulty variant of unsubscribeCount: the entry is decremented to 0 and kept.
unsubscribeCountKeepsZero(subs, k, c) ==
    IF k \in DOMAIN subs
    THEN LET map == subs[k]
             prev == GetOrZero(map, c)
         IN  MapSet(subs, k, IF prev = 0 THEN MapDelete(map, c)
                                         ELSE MapSet(map, c, prev - 1))
    ELSE subs

\* UNSUBSCRIBE_EVENTS: delete the entry at prev <= 1, else decrement.
unsubscribeCount(subs, k, c) ==
    IF k \in DOMAIN subs
    THEN LET map == subs[k]
             prev == GetOrZero(map, c)
         IN  MapSet(subs, k, IF prev <= 1 THEN MapDelete(map, c)
                                          ELSE MapSet(map, c, prev - 1))
    ELSE subs

\* Faulty variant of ensureSdkListener: no sdkEventHandlers.has check.
ensureSdkListenerUnguarded(handlers, listeners, k) ==
    [handlers |-> handlers \cup {k},
     listeners |-> [listeners EXCEPT ![k] = @ + 1]]

\* Faulty variant of ensureSdkListener: binding a kind drops the handlers
\* bound for the other kinds.
ensureSdkListenerSingleKind(handlers, listeners, k) ==
    IF k \in handlers
    THEN [handlers |-> handlers, listeners |-> listeners]
    ELSE [handlers |-> {k},
          listeners |-> [j \in Kinds |-> IF j = k THEN 1 ELSE 0]]

\* Faulty variant of ensureSdkListener: the handler is recorded in
\* sdkEventHandlers but never registered with the provider.
ensureSdkListenerMapOnly(handlers, listeners, k) ==
    [handlers |-> handlers \cup {k}, listeners |-> listeners]

\* Faulty variant of ensureSdkListener: the first subscription binds a
\* handler for every kind.
ensureSdkListenerAllKinds(handlers, listeners, k) ==
    IF k \in handlers
    THEN [handlers |-> handlers, listeners |-> listeners]
    ELSE [handlers |-> Kinds,
          listeners |-> [j \in Kinds |-> IF j \in handlers THEN listeners[j] ELSE 1]]

\* ensureSdkListener: one RecallAiSdk.addEventListener call per kind.
ensureSdkListener(handlers, listeners, k) ==
    IF k \in handlers
    THEN [handlers |-> handlers, listeners |-> listeners]
    ELSE [handlers |-> handlers \cup {k},
          listeners |-> [listeners EXCEPT ![k] = @ + 1]]

\* Faulty variant of destroyedCleanup: the subscriptions are left in place.
destroyedCleanupUntrackOnly(subs, tracked, c) ==
    [subs |-> subs, tracked |-> tracked \ {c}]

\* The 'destroyed' callback: delete the id from every kind's map, then untrack it.
destroyedCleanup(subs, tracked, c) ==
    [subs |-> [k \in DOMAIN subs |-> MapDelete(subs[k], c)],
     tracked |-> tracked \ {c}]

\* The channel broadcastEvent sends on and the preload's addEventListener
\* listens on: `recall-desktop:event:${type}`.
eventChannel(k) == "recall-desktop:event:" \o k

\* Faulty variant of broadcastEvent: the subscribers of every kind are sent to.
broadcastEventToAllKinds(subs, tracked, k, throws) ==
    [c \in Consumers |->
        IF (\E j \in DOMAIN subs : c \in DOMAIN subs[j]) /\ c \in tracked /\ c \notin throws
        THEN 1 ELSE 0]

\* Faulty variant of broadcastEvent: no try/catch around wc.send, so the
\* first send that throws ends the forEach (here: before anything was sent).
broadcastEventAbortsOnThrow(subs, tracked, k, throws) ==
    [c \in Consumers |->
        IF k \in DOMAIN subs /\ c \in DOMAIN subs[k] /\ c \in tracked /\ throws = {}
        THEN 1 ELSE 0]

\* broadcastEvent: one wc.send per entry of the kind's map whose webContents
\* is tracked; a send that throws (throws) is caught and delivers nothing.
broadcastEvent(subs, tracked, k, throws) ==
    [c \in Consumers |->
        IF k \in DOMAIN subs /\ c \in DOMAIN subs[k] /\ c \in tracked /\ c \notin throws
        THEN 1 ELSE 0]

\* The webContents broadcastEvent calls wc.send on.
sendTargets(subs, tracked, k) ==
    IF k \in DOMAIN subs THEN (DOMAIN subs[k]) \cap tracked ELSE {}

\* Faulty variant of hasSideEffect: every kind runs the shutdown side effect.
hasSideEffectEveryKind(k) == TRUE

\* eventSideEffects: only "shutdown" has one.
hasSideEffect(k) == k = "shutdown"

\* RecallSdkStore.clearState
clearState == FALSE

\* Faulty variant of handleSdkEvent: the fan-out precedes the side effect.
handleSdkEventBroadcastsFirst(k, initialized, subs, tracked, throws, effectThrows) ==
    [sdkInitialized |-> IF hasSideEffect(k) THEN clearState ELSE initialized,
     effectFailed |-> hasSideEffect(k) /\ effectThrows,
     steps |-> IF hasSideEffect(k) THEN <<"broadcast", "sideEffect">>
                                   ELSE <<"broadcast">>,
     readyAtSend |-> initialized,
     delivered |-> broadcastEvent(subs, tracked, k, throws)]

\* Faulty variant of handleSdkEvent: no try/catch around the side effect,
\* whose exception then leaves the handler before the fan-out.
handleSdkEventNoCatch(k, initialized, subs, tracked, throws, effectThrows) ==
    LET afterEffect == IF hasSideEffect(k) THEN clearState ELSE initialized
        escaped == hasSideEffect(k) /\ effectThrows
    IN  [sdkInitialized |-> afterEffect,
         effectFailed |-> escaped,
         steps |-> IF escaped THEN <<"sideEffect">>
                   ELSE IF hasSideEffect(k) THEN <<"sideEffect", "broadcast">>
                   ELSE <<"broadcast">>,
         readyAtSend |-> afterEffect,
         delivered |-> IF escaped THEN NoDelivery
                       ELSE broadcastEvent(subs, tracked, k, throws)]

\* handleSdkEvent: the side effect first, inside try/catch, then the
\* fan-out.  effectThrows: the side effect throws.  clearState writes the
\* flag before the one statement of it that can throw (console.log), so
\* the flag is cleared whether or not it throws.  steps lists what ran, in
\* order; readyAtSend is the flag as it stands when broadcastEvent runs.
handleSdkEvent(k, initialized, subs, tracked, throws, effectThrows) ==
    LET afterEffect == IF hasSideEffect(k) THEN clearState ELSE initialized
    IN  [sdkInitialized |-> afterEffect,
         effectFailed |-> hasSideEffect(k) /\ effectThrows,
         steps |-> IF hasSideEffect(k) THEN <<"sideEffect", "broadcast">>
                                       ELSE <<"broadcast">>,
         readyAtSend |-> afterEffect,
         delivered |-> broadcastEvent(subs, tracked, k, throws)]

(***************************************************************************)
(* RecallSdkStore configuration and the provider init parameters.          *)
(***************************************************************************)

\* Faulty variant of mergeConfig: the fields absent from the partial fall
\* back to their defaults.
mergeConfigReplaces(cfg, partial) ==
    [enabled |-> IF partial.enabled # <<>> THEN partial.enabled[1] ELSE TRUE,
     apiUrl |-> IF partial.apiUrl # <<>> THEN partial.apiUrl[1] ELSE DefaultApiUrl,
     requestPermissionsOnStartup |->
        IF partial.requestPermissionsOnStartup # <<>>
        THEN partial.requestPermissionsOnStartup[1]
        ELSE TRUE]

\* RecallSdkStore.setConfig: { ...this.config, ...updates }
mergeConfig(cfg, partial) ==
    [enabled |-> IF partial.enabled # <<>> THEN partial.enabled[1] ELSE cfg.enabled,
     apiUrl |-> IF partial.apiUrl # <<>> THEN partial.apiUrl[1] ELSE cfg.apiUrl,
     requestPermissionsOnStartup |->
        IF partial.requestPermissionsOnStartup # <<>>
        THEN partial.requestPermissionsOnStartup[1]
        ELSE cfg.requestPermissionsOnStartup]

\* RecallSdkStore.loadFromPreferences: each preference that is not undefined
\* overwrites its field.
loadFromPreferences(cfg, preferences) ==
    [enabled |-> IF preferences.enabled # <<>> THEN preferences.enabled[1] ELSE cfg.enabled,
     apiUrl |-> IF preferences.apiUrl # <<>> THEN preferences.apiUrl[1] ELSE cfg.apiUrl,
     requestPermissionsOnStartup |->
        IF preferences.requestPermissionsOnStartup # <<>>
        THEN preferences.requestPermissionsOnStartup[1]
        ELSE cfg.requestPermissionsOnStartup]

\* setPluginContext: the preferences it hands to the store; an apiUrl
\* preference that is empty after trim() counts as undefined.
StartupPreferences == { p \in Partials : p.apiUrl # <<"">> }

\* Startup preferences that set nothing but the enabled checkbox.
EnabledOnlyPreferences ==
    { p \in StartupPreferences : p.apiUrl = <<>> /\ p.requestPermissionsOnStartup = <<>> }

\* Faulty variant of storeUpdate: the store is written only when no live
\* reinitialization is due.
storeUpdateUnlessReady(cfg, partial, initialized) ==
    IF initialized THEN cfg ELSE mergeConfig(cfg, partial)

\* SET_CONFIG's first statement, recallSdkStore.setConfig(config): it
\* precedes the isSdkInitialized() test and every provider call.
storeUpdate(cfg, partial, initialized) == mergeConfig(cfg, partial)

\* acquirePermissionsOnStartup when requestPermissionsOnStartup is true.
StartupPermissions == {"accessibility", "screen-capture", "microphone", "system-audio"}

\* Faulty variant of sdkOptions: the permission set is always passed.
sdkOptionsAlwaysPermissions(cfg) ==
    [apiUrl |-> cfg.apiUrl, acquirePermissionsOnStartup |-> <<StartupPermissions>>]

\* initializeSdk: the SdkInitOptions built from recallSdkStore.getConfig()
\* (acquirePermissionsOnStartup is <<>> for undefined).
sdkOptions(cfg) ==
    [apiUrl |-> cfg.apiUrl,
     acquirePermissionsOnStartup |->
        IF cfg.requestPermissionsOnStartup THEN <<StartupPermissions>> ELSE <<>>]

\* RecallSdkStore.isEnabled
isEnabled(cfg) == cfg.enabled

\* Faulty variant of needsReinit: no isSdkInitialized() check.
needsReinitIgnoresReady(initialized, partial) ==
    \/ (partial.apiUrl # <<>> /\ partial.apiUrl[1] # "")
    \/ partial.requestPermissionsOnStartup # <<>>

\* SET_CONFIG's test for a live reinitialization:
\* isSdkInitialized() && (config.apiUrl || config.requestPermissionsOnStartup !== undefined)
needsReinit(initialized, partial) ==
    /\ initialized
    /\ \/ (partial.apiUrl # <<>> /\ partial.apiUrl[1] # "")
       \/ partial.requestPermissionsOnStartup # <<>>

\* What a partial does to the stored endpoint.
endpointChange(cfg, partial) ==
    IF partial.apiUrl = <<>> THEN "absent"
    ELSE IF partial.apiUrl[1] = cfg.apiUrl THEN "same"
    ELSE IF partial.apiUrl[1] = "" THEN "empty"
    ELSE "changed"

\* The handler invocations suspended at `await RecallAiSdk.<pc>(...)`.
Awaiting(op, pc) == { r \in BagToSet(inflight) : r.op = op /\ r.pc = pc }

CanAwait == BagCardinality(inflight) < MaxInFlight

Suspend(r) == inflight' = inflight (+) SetToBag({r})

Resume(r) == inflight' = inflight (-) SetToBag({r})

Continue(r, next) == inflight' = (inflight (-) SetToBag({r})) (+) SetToBag({next})

(***************************************************************************)
(* Initial state: the singletons as constructed (RecallSdkStore's default  *)
(* configuration, empty registries), before the plugin entry point runs.   *)
(***************************************************************************)
DefaultConfig ==
    [enabled |-> TRUE, apiUrl |-> DefaultApiUrl, requestPermissionsOnStartup |-> TRUE]

Init ==
    /\ isInitialized = FALSE
    /\ subscriptions = EmptyMap
    /\ trackedWebContents = {}
    /\ sdkEventHandlers = {}
    /\ providerListeners = [k \in Kinds |-> 0]
    /\ destroyedListeners = [c \in Consumers |-> 0]
    /\ wcState = [c \in Consumers |-> "alive"]
    /\ config = DefaultConfig
    /\ sdkInitialized = FALSE
    /\ inflight = EmptyBag
    /\ out = NoOut
    /\ netCount = [c \in Consumers |-> [k \in Kinds |-> 0]]
    /\ clientListeners = <<>>
    /\ ipcQueue = <<>>
    /\ issued = <<>>
    /\ applied = <<>>
    /\ clientApi = "api"
    /\ activeRecordingWindowId = <<>>
    /\ meetingHandlers = EmptyBag
    /\ started = [w \in Windows |-> 0]

(***************************************************************************)
(* Actions.                                                                *)
(***************************************************************************)

\* The plugin entry point: setPluginContext hydrates the store from the
\* preferences, then RecallDesktopMain.initialize registers the IPC
\* handlers, once, and only when the plugin is enabled.
PluginEntry(preferences) ==
    /\ ~isInitialized
    /\ config' = loadFromPreferences(config, preferences)
    /\ isInitialized' = isEnabled(config')
    /\ out' = NoOut
    /\ UNCHANGED <<rendererVars, hubVars, sdkInitialized, inflight>>

\* SUBSCRIBE_EVENTS handler, for sender c and event type k.
SubscribeEvents(c, k) ==
    /\ isInitialized
    /\ wcState[c] = "alive"
    /\ Count(subscriptions, k, c) < MaxCount
    /\ LET t == addDestroyedCleanup(trackedWebContents, destroyedListeners, c)
           l == ensureSdkListener(sdkEventHandlers, providerListeners, k)
       IN  /\ trackedWebContents' = t.tracked
           /\ destroyedListeners' = t.listeners
           /\ subscriptions' = subscribeCount(subscriptions, k, c)
           /\ sdkEventHandlers' = l.handlers
           /\ providerListeners' = l.listeners
    /\ netCount' = [netCount EXCEPT ![c][k] = @ + 1]
    /\ out' = [Reply(TRUE, "Subscribed to",
                      Request("subscribeEvents", "", <<>>, sdkInitialized, "absent"), "")
                 EXCEPT !.kind = k]
    /\ UNCHANGED <<rendererVars, isInitialized, wcState, config, sdkInitialized, inflight>>

\* UNSUBSCRIBE_EVENTS handler, for sender c and event type k.
UnsubscribeEvents(c, k) ==
    /\ isInitialized
    /\ wcState[c] = "alive"
    /\ subscriptions' = unsubscribeCount(subscriptions, k, c)
    /\ netCount' = [netCount EXCEPT ![c][k] = IF @ = 0 THEN 0 ELSE @ - 1]
    /\ out' = [Reply(TRUE, "Unsubscribed from",
                      Request("unsubscribeEvents", "", <<>>, sdkInitialized, "absent"), "")
                 EXCEPT !.kind = k]
    /\ UNCHANGED <<rendererVars, isInitialized, trackedWebContents, sdkEventHandlers, providerListeners,
                   destroyedListeners, wcState, config, sdkInitialized, inflight>>

\* The webContents c is destroyed: every callback registered with
\* wc.once("destroyed") runs, once.
Destroyed(c) ==
    /\ wcState[c] = "alive"
    /\ wcState' = [wcState EXCEPT ![c] = "destroyed"]
    /\ LET d == destroyedCleanup(subscriptions, trackedWebContents, c)
       IN  IF destroyedListeners[c] > 0
           THEN /\ subscriptions' = d.subs
                /\ trackedWebContents' = d.tracked
           ELSE UNCHANGED <<subscriptions, trackedWebContents>>
    /\ destroyedListeners' = [destroyedListeners EXCEPT ![c] = 0]
    /\ netCount' = [netCount EXCEPT ![c] = [k \in Kinds |-> 0]]
    /\ out' = NoOut
    /\ UNCHANGED <<rendererVars, isInitialized, sdkEventHandlers, providerListeners, config,
                   sdkInitialized, inflight>>

\* The provider emits one event of kind k: each handler registered for k
\* with RecallAiSdk.addEventListener runs handleSdkEvent to completion.
\* throws: the webContents whose wc.send throws during this fan-out;
\* effectThrows: the kind's side effect throws.
FireEvent(k, throws, effectThrows) ==
    /\ throws \subseteq sendTargets(subscriptions, trackedWebContents, k)
    /\ effectThrows => (hasSideEffect(k) /\ providerListeners[k] > 0)
    /\ LET n == providerListeners[k]
           h == handleSdkEvent(k, sdkInitialized, subscriptions, trackedWebContents,
                               throws, effectThrows)
       IN  /\ sdkInitialized' = IF n > 0 THEN h.sdkInitialized ELSE sdkInitialized
           /\ out' = [NoOut EXCEPT !.op = "event", !.kind = k, !.handled = n,
                                   !.ready = sdkInitialized,
                                   !.delivered = [c \in Consumers |-> n * h.delivered[c]],
                                   !.failed = IF n > 0 THEN throws ELSE {},
                                   !.steps = IF n > 0 THEN h.steps ELSE <<>>,
                                   !.effectFailed = h.effectFailed,
                                   !.readyAtSend = n > 0 /\ h.readyAtSend,
                                   !.channel = IF n > 0 THEN eventChannel(k) ELSE ""]
    /\ UNCHANGED <<rendererVars, isInitialized, hubVars, config, inflight>>

(***************************************************************************)
(* SDK lifecycle handlers.                                                 *)
(***************************************************************************)

\* Faulty variant of initSdkBranch: no isEnabled() check.
initSdkBranchSkipsDisabled(cfg, initialized) ==
    IF initialized THEN "already" ELSE "init"

\* Faulty variant of initSdkBranch: no isSdkInitialized() check.
initSdkBranchSkipsAlready(cfg, initialized) ==
    IF ~isEnabled(cfg) THEN "disabled" ELSE "init"

\* INIT_SDK, up to its first await: the disabled check, then the
\* already-initialized check, then initializeSdk's call of RecallAiSdk.init.
initSdkBranch(cfg, initialized) ==
    IF ~isEnabled(cfg) THEN "disabled"
    ELSE IF initialized THEN "already"
    ELSE "init"

\* initializeSdk after `await RecallAiSdk.init(...)` settles:
\* setSdkInitialized(true) on success, the flag untouched on failure.
initializeSdkSettled(initialized, ok) ==
    IF ok THEN TRUE ELSE initialized

\* SHUTDOWN_SDK after `await RecallAiSdk.shutdown()` settles: clearState()
\* follows the await inside the try block.
shutdownSdkSettled(initialized, ok) ==
    IF ok THEN clearState ELSE initialized

\* SET_CONFIG after its `await RecallAiSdk.shutdown()` settles: on success
\* initializeSdk is entered and calls RecallAiSdk.init; a rejection goes to
\* the catch block.
reinitAfterShutdown(r, ok) ==
    IF ok THEN [r EXCEPT !.pc = "init", !.calls = Append(@, "init")]
    ELSE r

InitSdk ==
    /\ isInitialized
    /\ LET b == initSdkBranch(config, sdkInitialized)
           sync == Request("initSdk", "", <<>>, sdkInitialized, "absent")
       IN  \/ /\ b = "disabled"
              /\ out' = Reply(FALSE, "Plugin is disabled", sync, "")
              /\ UNCHANGED inflight
           \/ /\ b = "already"
              /\ out' = Reply(TRUE, "SDK already initialized", sync, "")
              /\ UNCHANGED inflight
           \/ /\ b = "init"
              /\ CanAwait
              /\ Suspend(Request("initSdk", "init", <<"init">>, sdkInitialized, "absent"))
              /\ out' = [NoOut EXCEPT !.initCall = <<sdkOptions(config)>>]
    /\ UNCHANGED <<rendererVars, isInitialized, hubVars, config, sdkInitialized>>

InitSdkSettled(r, ok) ==
    /\ r \in Awaiting("initSdk", "init")
    /\ Resume(r)
    /\ sdkInitialized' = initializeSdkSettled(sdkInitialized, ok)
    /\ out' = IF ok
              THEN Reply(TRUE, "SDK initialized successfully", r, "")
              ELSE Reply(FALSE, "SDK initialization failed", r, "init")
    /\ UNCHANGED <<rendererVars, isInitialized, hubVars, config>>

ShutdownSdk ==
    /\ isInitialized
    /\ CanAwait
    /\ Suspend(Request("shutdownSdk", "shutdown", <<"shutdown">>, sdkInitialized, "absent"))
    /\ out' = NoOut
    /\ UNCHANGED <<rendererVars, isInitialized, hubVars, config, sdkInitialized>>

ShutdownSdkSettled(r, ok) ==
    /\ r \in Awaiting("shutdownSdk", "shutdown")
    /\ Resume(r)
    /\ sdkInitialized' = shutdownSdkSettled(sdkInitialized, ok)
    /\ out' = IF ok
              THEN Reply(TRUE, "SDK shutdown successfully", r, "")
              ELSE Reply(FALSE, "SDK shutdown failed", r, "shutdown")
    /\ UNCHANGED <<rendererVars, isInitialized, hubVars, config>>

SetConfig(partial) ==
    /\ isInitialized
    /\ config' = storeUpdate(config, partial, sdkInitialized)
    /\ LET chg == endpointChange(config, partial)
       IN  \/ /\ needsReinit(sdkInitialized, partial)
              /\ CanAwait
              /\ Suspend(Request("setConfig", "shutdown", <<"shutdown">>, sdkInitialized, chg))
              /\ out' = NoOut
           \/ /\ ~needsReinit(sdkInitialized, partial)
              /\ out' = Reply(TRUE, "Configuration updated successfully",
                              Request("setConfig", "", <<>>, sdkInitialized, chg), "")
              /\ UNCHANGED inflight
    /\ UNCHANGED <<rendererVars, isInitialized, hubVars, sdkInitialized>>

SetConfigShutdownSettled(r, ok) ==
    /\ r \in Awaiting("setConfig", "shutdown")
    /\ \/ /\ ok
          /\ Continue(r, reinitAfterShutdown(r, ok))
          /\ out' = [NoOut EXCEPT !.initCall = <<sdkOptions(config)>>]
       \/ /\ ~ok
          /\ Resume(r)
          /\ out' = Reply(FALSE, "Failed to update configuration",
                          reinitAfterShutdown(r, ok), "shutdown")
    /\ UNCHANGED <<rendererVars, isInitialized, hubVars, config, sdkInitialized>>

SetConfigInitSettled(r, ok) ==
    /\ r \in Awaiting("setConfig", "init")
    /\ Resume(r)
    /\ sdkInitialized' = initializeSdkSettled(sdkInitialized, ok)
    /\ out' = IF ok
              THEN Reply(TRUE, "Configuration updated successfully", r, "")
              ELSE Reply(FALSE, "Failed to update configuration", r, "init")
    /\ UNCHANGED <<rendererVars, isInitialized, hubVars, config>>

(***************************************************************************)
(* Recording, desktop-audio and permission handlers: each forwards one     *)
(* call to the provider and converts its outcome into an ApiResponse.      *)
(***************************************************************************)

\* START/STOP/PAUSE/RESUME/UPLOAD_RECORDING, named by the provider method.
RecordingOps ==
    {"startRecording", "stopRecording", "pauseRecording", "resumeRecording",
     "uploadRecording"}

\* The handlers that forward to the provider without reading the store.
UngatedOps ==
    (RecordingOps \ {"startRecording"})
        \cup {"prepareDesktopAudioRecording", "requestPermission"}

\* The message each handler returns after its provider call resolved.
successMessage(op) ==
    CASE op = "startRecording" -> "Recording started successfully"
      [] op = "stopRecording" -> "Recording stopped successfully"
      [] op = "pauseRecording" -> "Recording paused successfully"
      [] op = "resumeRecording" -> "Recording resumed successfully"
      [] op = "uploadRecording" -> "Recording upload started successfully"
      [] op = "prepareDesktopAudioRecording" ->
             "Desktop audio recording prepared successfully"
      [] op = "requestPermission" -> "Permission request sent for"

\* The message each handler's catch block returns for a rejected provider call.
failureMessage(op) ==
    CASE op = "startRecording" -> "Failed to start recording"
      [] op = "stopRecording" -> "Failed to stop recording"
      [] op = "pauseRecording" -> "Failed to pause recording"
      [] op = "resumeRecording" -> "Failed to resume recording"
      [] op = "uploadRecording" -> "Failed to upload recording"
      [] op = "prepareDesktopAudioRecording" ->
             "Failed to prepare desktop audio recording"
      [] op = "requestPermission" -> "Failed to request permission"

\* Faulty variant of catchReply: the rejection leaves the handler uncaught.
catchReplyRethrows(r, rejected) ==
    [Reply(FALSE, "", r, rejected) EXCEPT !.op = "uncaught"]

\* try { await RecallAiSdk.<op>(...) } catch { return {success: false, message} }
catchReply(r, rejected) ==
    Reply(FALSE, failureMessage(r.op), r, rejected)

\* START_RECORDING: the only forwarding handler that checks isSdkInitialized().
StartRecording ==
    /\ isInitialized
    /\ \/ /\ ~sdkInitialized
          /\ out' = Reply(FALSE, "SDK not initialized",
                          Request("startRecording", "", <<>>, sdkInitialized, "absent"), "")
          /\ UNCHANGED inflight
       \/ /\ sdkInitialized
          /\ CanAwait
          /\ Suspend(Request("startRecording", "startRecording", <<"startRecording">>,
                             sdkInitialized, "absent"))
          /\ out' = NoOut
    /\ UNCHANGED <<rendererVars, isInitialized, hubVars, config, sdkInitialized>>

\* STOP/PAUSE/RESUME/UPLOAD_RECORDING, PREPARE_DESKTOP_AUDIO and
\* REQUEST_PERMISSION, up to the await of the provider call.
Forward(op) ==
    /\ isInitialized
    /\ CanAwait
    /\ Suspend(Request(op, op, <<op>>, sdkInitialized, "absent"))
    /\ out' = NoOut
    /\ UNCHANGED <<rendererVars, isInitialized, hubVars, config, sdkInitialized>>

\* The forwarded provider call settles.
ForwardSettled(r, ok) ==
    /\ r \in BagToSet(inflight)
    /\ r.op \in UngatedOps \cup {"startRecording"}
    /\ Resume(r)
    /\ out' = IF ok THEN Reply(TRUE, successMessage(r.op), r, "")
                    ELSE catchReply(r, r.pc)
    /\ UNCHANGED <<rendererVars, isInitialized, hubVars, config, sdkInitialized>>

(***************************************************************************)
(* The renderer of webContents 1: the preload bridge's addEventListener    *)
(* and the client library's listener tracking (RecallDesktopClient).       *)
(* Each call is one synchronous turn of the renderer; the invokes it sends *)
(* reach the main process in the order sent (one IPC pipe per webContents) *)
(* and main handles one invoke per turn.                                   *)
(***************************************************************************)

\* The message every guarded method of the client throws when this.api is null.
NotAvailable ==
    "Recall Desktop SDK plugin is not available. Make sure you are running in ToDesktop."

\* The methods of RecallDesktopClient that begin with `if (!this.api) throw`.
ClientOps ==
    {"initSdk", "shutdownSdk", "getStatus", "startRecording", "stopRecording",
     "pauseRecording", "resumeRecording", "uploadRecording",
     "prepareDesktopAudioRecording", "requestPermission", "setConfig", "getConfig",
     "addEventListener", "getVersion"}

\* RecallDesktopClient.isAvailable
isAvailable(api) == api # "null"

\* Faulty variant of clientCall: addEventListener has no availability guard.
clientCallListenerUnguarded(api, op) ==
    IF api = "null" /\ op # "addEventListener" THEN "throw" ELSE "call"

\* The guard at the head of every method in ClientOps.
clientCall(api, op) == IF api = "null" THEN "throw" ELSE "call"

\* ipcRenderer.invoke(channel, eventType)
Invoke(channel, k) == [channel |-> channel, kind |-> k]

\* One addEventListener call of the client: the preload's listener on the
\* kind's channel (on: registered with ipcRenderer.on), the entry of
\* eventUnsubscribers holding the preload's unsubscribe function (tracked)
\* and how often that function has been called (unsubscribed).
Listener(k) ==
    [kind |-> k, channel |-> eventChannel(k), on |-> TRUE, tracked |-> TRUE,
     unsubscribed |-> 0]

\* The function the preload's addEventListener returns:
\* ipcRenderer.removeListener, then invoke(UNSUBSCRIBE_EVENTS).
preloadUnsubscribe(l) == [l EXCEPT !.on = FALSE, !.unsubscribed = @ + 1]

\* The function the client's addEventListener returns: unsubscribe(), then
\* eventUnsubscribers.delete(key).
clientUnsubscribe(listeners, h) ==
    [listeners EXCEPT ![h] = [preloadUnsubscribe(@) EXCEPT !.tracked = FALSE]]

\* Faulty variant of removeAllEventListeners: the unsubscribe function of
\* every listener ever added is called.
removeAllEventListenersCallsEvery(listeners) ==
    [h \in DOMAIN listeners |-> [preloadUnsubscribe(listeners[h]) EXCEPT !.tracked = FALSE]]

\* RecallDesktopClient.removeAllEventListeners: every function still in
\* eventUnsubscribers is called, then the map is cleared.
removeAllEventListeners(listeners) ==
    [h \in DOMAIN listeners |->
        IF listeners[h].tracked
        THEN [preloadUnsubscribe(listeners[h]) EXCEPT !.tracked = FALSE]
        ELSE listeners[h]]

\* The invokes sent while going from listeners to after, in the map's
\* (insertion) order: one UNSUBSCRIBE_EVENTS per call of a preload
\* unsubscribe function.
unsubscribeInvokes(listeners, after) ==
    LET called == SelectSeq([h \in DOMAIN listeners |-> [h |-> h]],
                            LAMBDA e : after[e.h].unsubscribed > listeners[e.h].unsubscribed)
    IN  [i \in DOMAIN called |-> Invoke("unsubscribe-events", listeners[called[i].h].kind)]

\* An entry of the history of invokes: the invoke and the call that sent it.
Sent(invokes, by) ==
    [i \in DOMAIN invokes |->
        [channel |-> invokes[i].channel, kind |-> invokes[i].kind, by |-> by]]

\* Faulty variant of dequeue: the newest invoke is handled first.
dequeueNewestFirst(queue) ==
    [invoke |-> queue[Len(queue)], rest |-> SubSeq(queue, 1, Len(queue) - 1)]

\* The invoke main handles next: the oldest one the renderer sent.
dequeue(queue) == [invoke |-> Head(queue), rest |-> Tail(queue)]

\* The subscribe/unsubscribe invokes among invokes.
SubscriptionInvokes(invokes) ==
    SelectSeq(invokes, LAMBDA i : i.channel \in {"subscribe-events", "unsubscribe-events"})

\* The shutdown invokes among invokes.
ShutdownInvokes(invokes) == SelectSeq(invokes, LAMBDA i : i.channel = "shutdown-sdk")

\* Faulty variant of clientShutdownSdk: the shutdown request is sent before
\* the listeners are cleaned up.
clientShutdownSdkThenCleanup(listeners) ==
    LET after == removeAllEventListeners(listeners)
    IN  [listeners |-> after,
         invokes |-> <<Invoke("shutdown-sdk", "")>> \o unsubscribeInvokes(listeners, after)]

\* RecallDesktopClient.shutdownSdk with the API present:
\* this.removeAllEventListeners(), then this.api.shutdownSdk().
clientShutdownSdk(listeners) ==
    LET after == removeAllEventListeners(listeners)
    IN  [listeners |-> after,
         invokes |-> unsubscribeInvokes(listeners, after) \o <<Invoke("shutdown-sdk", "")>>]

\* new RecallDesktopClient(), where window.todesktop.recallDesktop is
\* present or not: a client with an empty eventUnsubscribers map.
NewClient(present) ==
    /\ clientListeners = <<>>
    /\ clientApi' = IF present THEN "api" ELSE "null"
    /\ out' = NoOut
    /\ UNCHANGED <<isInitialized, hubVars, config, sdkInitialized, inflight,
                   clientListeners, ipcQueue, issued, applied, exampleVars>>

\* A guarded method of the client called while this.api is null: it throws.
ClientThrows(op) ==
    /\ clientCall(clientApi, op) = "throw"
    /\ out' = [NoOut EXCEPT !.op = op, !.success = FALSE, !.message = NotAvailable,
                            !.rejected = "client"]
    /\ UNCHANGED <<isInitialized, hubVars, config, sdkInitialized, inflight, rendererVars>>

\* client.isAvailable()
IsAvailable ==
    /\ out' = [NoOut EXCEPT !.op = "isAvailable", !.success = isAvailable(clientApi)]
    /\ UNCHANGED <<isInitialized, hubVars, config, sdkInitialized, inflight, rendererVars>>

\* client.shutdownSdk() with the API present.
ClientShutdownSdk ==
    /\ clientCall(clientApi, "shutdownSdk") = "call"
    /\ wcState[1] = "alive"
    /\ Len(ShutdownInvokes(issued)) < MaxShutdowns
    /\ LET s == clientShutdownSdk(clientListeners)
       IN  /\ Len(SubscriptionInvokes(issued \o s.invokes)) <= MaxIssued
           /\ clientListeners' = s.listeners
           /\ ipcQueue' = ipcQueue \o s.invokes
           /\ issued' = issued \o Sent(s.invokes, "shutdownSdk")
    /\ out' = NoOut
    /\ UNCHANGED <<isInitialized, hubVars, config, sdkInitialized, inflight, applied,
                   clientApi, exampleVars>>

\* Main handles the renderer's next invoke, a shutdown request: the
\* SHUTDOWN_SDK handler runs up to its await of RecallAiSdk.shutdown().
HandleShutdownInvoke ==
    /\ isInitialized
    /\ wcState[1] = "alive"
    /\ ipcQueue # <<>>
    /\ dequeue(ipcQueue).invoke.channel = "shutdown-sdk"
    /\ CanAwait
    /\ ipcQueue' = dequeue(ipcQueue).rest
    /\ applied' = Append(applied, dequeue(ipcQueue).invoke)
    /\ Suspend(Request("shutdownSdk", "shutdown", <<"shutdown">>, sdkInitialized, "absent"))
    /\ out' = NoOut
    /\ UNCHANGED <<isInitialized, hubVars, config, sdkInitialized,
                   clientListeners, issued, clientApi, exampleVars>>

\* client.addEventListener(k, callback)
AddEventListener(k) ==
    /\ clientCall(clientApi, "addEventListener") = "call"
    /\ isInitialized
    /\ wcState[1] = "alive"
    /\ Len(clientListeners) < MaxListeners
    /\ Len(SubscriptionInvokes(issued)) < MaxIssued
    /\ clientListeners' = Append(clientListeners, Listener(k))
    /\ ipcQueue' = Append(ipcQueue, Invoke("subscribe-events", k))
    /\ issued' = issued \o Sent(<<Invoke("subscribe-events", k)>>, "addEventListener")
    /\ out' = NoOut
    /\ UNCHANGED <<isInitialized, hubVars, config, sdkInitialized, inflight, applied,
                   clientApi, exampleVars>>

\* A call of the function client.addEventListener returned for listener h.
Unsubscribe(h) ==
    /\ h \in DOMAIN clientListeners
    /\ wcState[1] = "alive"
    /\ Len(SubscriptionInvokes(issued)) < MaxIssued
    /\ clientListeners' = clientUnsubscribe(clientListeners, h)
    /\ LET invokes == unsubscribeInvokes(clientListeners, clientListeners')
       IN  /\ ipcQueue' = ipcQueue \o invokes
           /\ issued' = issued \o Sent(invokes, "unsubscribe")
    /\ out' = NoOut
    /\ UNCHANGED <<isInitialized, hubVars, config, sdkInitialized, inflight, applied,
                   clientApi, exampleVars>>

\* client.removeAllEventListeners()
RemoveAllEventListeners ==
    /\ wcState[1] = "alive"
    /\ clientListeners # <<>>
    /\ clientListeners' = removeAllEventListeners(clientListeners)
    /\ LET invokes == unsubscribeInvokes(clientListeners, clientListeners')
       IN  /\ Len(SubscriptionInvokes(issued)) + Len(invokes) <= MaxIssued
           /\ ipcQueue' = ipcQueue \o invokes
           /\ issued' = issued \o Sent(invokes, "removeAllEventListeners")
    /\ out' = NoOut
    /\ UNCHANGED <<isInitialized, hubVars, config, sdkInitialized, inflight, applied,
                   clientApi, exampleVars>>

\* Main handles the renderer's next invoke: the SUBSCRIBE_EVENTS or
\* UNSUBSCRIBE_EVENTS handler runs to completion with webContents 1 as sender.
HandleInvoke ==
    /\ isInitialized
    /\ wcState[1] = "alive"
    /\ ipcQueue # <<>>
    /\ dequeue(ipcQueue).invoke.channel \in {"subscribe-events", "unsubscribe-events"}
    /\ LET d == dequeue(ipcQueue)
           k == d.invoke.kind
           subscribe == d.invoke.channel = "subscribe-events"
           t == addDestroyedCleanup(trackedWebContents, destroyedListeners, 1)
           l == ensureSdkListener(sdkEventHandlers, providerListeners, k)
       IN  /\ ipcQueue' = d.rest
           /\ applied' = Append(applied, d.invoke)
           /\ trackedWebContents' = IF subscribe THEN t.tracked ELSE trackedWebContents
           /\ destroyedListeners' = IF subscribe THEN t.listeners ELSE destroyedListeners
           /\ sdkEventHandlers' = IF subscribe THEN l.handlers ELSE sdkEventHandlers
           /\ providerListeners' = IF subscribe THEN l.listeners ELSE providerListeners
           /\ subscriptions' = IF subscribe THEN subscribeCount(subscriptions, k, 1)
                                            ELSE unsubscribeCount(subscriptions, k, 1)
           /\ netCount' = [netCount EXCEPT ![1][k] =
                              IF subscribe THEN @ + 1 ELSE IF @ = 0 THEN 0 ELSE @ - 1]
           /\ out' = [Reply(TRUE, IF subscribe THEN "Subscribed to" ELSE "Unsubscribed from",
                            Request(IF subscribe THEN "subscribeEvents" ELSE "unsubscribeEvents",
                                    "", <<>>, sdkInitialized, "absent"), "")
                        EXCEPT !.kind = k]
    /\ UNCHANGED <<isInitialized, wcState, config, sdkInitialized, inflight,
                   clientListeners, issued, clientApi, exampleVars>>

(***************************************************************************)
(* Specifications.  The hub and the lifecycle controller share only        *)
(* sdkInitialized (cleared by the shutdown event's side effect), so each   *)
(* is explored with the other reduced to what can influence it.            *)
(***************************************************************************)

\* The subscription hub with every consumer and kind, and the provider's
\* events; no lifecycle request is made, so sdkInitialized stays false.
NextHub ==
    \/ \E preferences \in EnabledOnlyPreferences : PluginEntry(preferences)
    \/ \E c \in Consumers, k \in Kinds : SubscribeEvents(c, k)
    \/ \E c \in Consumers, k \in Kinds : UnsubscribeEvents(c, k)
    \/ \E c \in Consumers : Destroyed(c)
    \/ \E k \in Kinds, throws \in SUBSET Consumers, effectThrows \in BOOLEAN :
          FireEvent(k, throws, effectThrows)

SpecHub == Init /\ [][NextHub]_vars

\* The lifecycle controller with every request and every configuration;
\* of the hub, one consumer's subscribes to "shutdown" (which bind the
\* upstream listener whose side effect clears sdkInitialized) and the
\* provider's events.
NextLifecycle ==
    \/ \E preferences \in StartupPreferences : PluginEntry(preferences)
    \/ SubscribeEvents(1, "shutdown")
    \/ \E k \in Kinds, effectThrows \in BOOLEAN : FireEvent(k, {}, effectThrows)
    \/ InitSdk
    \/ \E r \in BagToSet(inflight), ok \in BOOLEAN : InitSdkSettled(r, ok)
    \/ ShutdownSdk
    \/ \E r \in BagToSet(inflight), ok \in BOOLEAN : ShutdownSdkSettled(r, ok)
    \/ \E partial \in Partials : SetConfig(partial)
    \/ \E r \in BagToSet(inflight), ok \in BOOLEAN : SetConfigShutdownSettled(r, ok)
    \/ \E r \in BagToSet(inflight), ok \in BOOLEAN : SetConfigInitSettled(r, ok)

SpecLifecycle == Init /\ [][NextLifecycle]_vars

\* setConfig partials that touch only requestPermissionsOnStartup.
PermissionPartials ==
    { partial \in Partials : partial.enabled = <<>> /\ partial.apiUrl = <<>> }

\* Every client-facing request handler, with the inputs of the lifecycle
\* and subscription handlers reduced to one consumer, one kind and the
\* partials that leave enabled and apiUrl alone.
NextHandlers ==
    \/ \E preferences \in EnabledOnlyPreferences : PluginEntry(preferences)
    \/ SubscribeEvents(1, "shutdown")
    \/ UnsubscribeEvents(1, "shutdown")
    \/ InitSdk
    \/ \E r \in BagToSet(inflight), ok \in BOOLEAN : InitSdkSettled(r, ok)
    \/ ShutdownSdk
    \/ \E r \in BagToSet(inflight), ok \in BOOLEAN : ShutdownSdkSettled(r, ok)
    \/ \E partial \in PermissionPartials : SetConfig(partial)
    \/ \E r \in BagToSet(inflight), ok \in BOOLEAN : SetConfigShutdownSettled(r, ok)
    \/ \E r \in BagToSet(inflight), ok \in BOOLEAN : SetConfigInitSettled(r, ok)
    \/ StartRecording
    \/ \E op \in UngatedOps : Forward(op)
    \/ \E r \in BagToSet(inflight), ok \in BOOLEAN : ForwardSettled(r, ok)

SpecHandlers == Init /\ [][NextHandlers]_vars

\* The upstream listener bindings under everything that happens around
\* them: one consumer's subscribes, unsubscribes and disconnect on every
\* kind, and the lifecycle requests.
NextListeners ==
    \/ \E preferences \in EnabledOnlyPreferences : PluginEntry(preferences)
    \/ \E k \in Kinds : SubscribeEvents(1, k)
    \/ \E k \in Kinds : UnsubscribeEvents(1, k)
    \/ Destroyed(1)
    \/ InitSdk
    \/ \E r \in BagToSet(inflight), ok \in BOOLEAN : InitSdkSettled(r, ok)
    \/ ShutdownSdk
    \/ \E r \in BagToSet(inflight), ok \in BOOLEAN : ShutdownSdkSettled(r, ok)
    \/ \E partial \in PermissionPartials : SetConfig(partial)
    \/ \E r \in BagToSet(inflight), ok \in BOOLEAN : SetConfigShutdownSettled(r, ok)
    \/ \E r \in BagToSet(inflight), ok \in BOOLEAN : SetConfigInitSettled(r, ok)

SpecListeners == Init /\ [][NextListeners]_vars

\* The configuration store under every setConfig partial, with initSdk to
\* reach the Ready state; the startup preferences leave apiUrl and
\* requestPermissionsOnStartup alone, so only setConfig changes them.
NextConfig ==
    \/ \E preferences \in EnabledOnlyPreferences : PluginEntry(preferences)
    \/ InitSdk
    \/ \E r \in BagToSet(inflight), ok \in BOOLEAN : InitSdkSettled(r, ok)
    \/ \E partial \in Partials : SetConfig(partial)
    \/ \E r \in BagToSet(inflight), ok \in BOOLEAN : SetConfigShutdownSettled(r, ok)
    \/ \E r \in BagToSet(inflight), ok \in BOOLEAN : SetConfigInitSettled(r, ok)

SpecConfig == Init /\ [][NextConfig]_vars

\* The renderer of webContents 1 with its client library, main's handling
\* of its invokes and the provider's events.
NextRenderer ==
    \/ \E preferences \in EnabledOnlyPreferences : PluginEntry(preferences)
    \/ \E k \in Kinds : AddEventListener(k)
    \/ \E h \in 1..MaxListeners : Unsubscribe(h)
    \/ RemoveAllEventListeners
    \/ HandleInvoke
    \/ \E k \in Kinds : FireEvent(k, {}, FALSE)

SpecRenderer == Init /\ [][NextRenderer]_vars

(***************************************************************************)
(* The example app's renderer (handlers.ts, state.ts): the handlers it     *)
(* registers for meeting-detected and recording-ended events. A handler    *)
(* runs until its next await; the token fetch and the startRecording       *)
(* request settle in later turns.                                          *)
(***************************************************************************)

\* createMeetingDetectedHandler: getActiveRecordingWindowId() === window.id
alreadyActive(active, w) == active = <<w>>

\* createRecordingEndedHandler: the id is cleared only if it is this window's.
recordingEnded(active, w) == IF active = <<w>> THEN <<>> ELSE active

\* A meeting-detected handler suspended at `await <pc>` for window w.
MeetingHandler(w, pc) == [window |-> w, pc |-> pc]

\* A meeting-detected event for window w arrives: the handler returns at
\* once if the window is the active one, else awaits the upload token.
MeetingDetected(w) ==
    /\ \/ /\ alreadyActive(activeRecordingWindowId, w)
          /\ UNCHANGED meetingHandlers
       \/ /\ ~alreadyActive(activeRecordingWindowId, w)
          /\ BagCardinality(meetingHandlers) < MaxHandlers
          /\ meetingHandlers' = meetingHandlers (+) SetToBag({MeetingHandler(w, "token")})
    /\ out' = [NoOut EXCEPT !.op = "meeting-detected", !.kind = w,
                            !.success = ~alreadyActive(activeRecordingWindowId, w)]
    /\ UNCHANGED <<isInitialized, hubVars, config, sdkInitialized, inflight, clientVars,
                   activeRecordingWindowId, started>>

\* getUploadTokenFromBackend() settles for handler h: with a token the
\* handler issues recallDesktop.startRecording(window.id, token) and awaits
\* it; a rejection ends the handler in its catch block.
UploadTokenSettled(h, ok) ==
    /\ h \in BagToSet(meetingHandlers)
    /\ h.pc = "token"
    /\ IF ok
       THEN /\ started[h.window] < MaxStarts
            /\ meetingHandlers' = (meetingHandlers (-) SetToBag({h}))
                                     (+) SetToBag({MeetingHandler(h.window, "startRecording")})
            /\ started' = [started EXCEPT ![h.window] = @ + 1]
       ELSE /\ meetingHandlers' = meetingHandlers (-) SetToBag({h})
            /\ UNCHANGED started
    /\ out' = [NoOut EXCEPT !.op = "uploadToken", !.kind = h.window, !.success = ok,
                            !.calls = IF ok THEN <<"startRecording">> ELSE <<>>]
    /\ UNCHANGED <<isInitialized, hubVars, config, sdkInitialized, inflight, clientVars,
                   activeRecordingWindowId>>

\* The startRecording request of handler h settles: on {success: true} the
\* window becomes the active one; on {success: false} or a rejection the
\* handler ends in its catch block.
StartRecordingResult(h, ok) ==
    /\ h \in BagToSet(meetingHandlers)
    /\ h.pc = "startRecording"
    /\ meetingHandlers' = meetingHandlers (-) SetToBag({h})
    /\ activeRecordingWindowId' = IF ok THEN <<h.window>> ELSE activeRecordingWindowId
    /\ started' = IF ok THEN started ELSE [started EXCEPT ![h.window] = @ - 1]
    /\ out' = [NoOut EXCEPT !.op = "startRecordingResult", !.kind = h.window, !.success = ok]
    /\ UNCHANGED <<isInitialized, hubVars, config, sdkInitialized, inflight, clientVars>>

\* A recording-ended event for window w arrives.
RecordingEnded(w) ==
    /\ activeRecordingWindowId' = recordingEnded(activeRecordingWindowId, w)
    /\ started' = [started EXCEPT ![w] = 0]
    /\ out' = [NoOut EXCEPT !.op = "recording-ended", !.kind = w]
    /\ UNCHANGED <<isInitialized, hubVars, config, sdkInitialized, inflight, clientVars,
                   meetingHandlers>>

NextExample ==
    \/ \E w \in Windows : MeetingDetected(w)
    \/ \E h \in BagToSet(meetingHandlers), ok \in BOOLEAN : UploadTokenSettled(h, ok)
    \/ \E h \in BagToSet(meetingHandlers), ok \in BOOLEAN : StartRecordingResult(h, ok)
    \/ \E w \in Windows : RecordingEnded(w)

SpecExample == Init /\ [][NextExample]_vars

\* The hub for webContents 1 together with the lifecycle handlers and the
\* provider's events: registry steps interleaved with lifecycle steps.
NextDispatch ==
    \/ \E preferences \in EnabledOnlyPreferences : PluginEntry(preferences)
    \/ \E k \in Kinds : SubscribeEvents(1, k)
    \/ \E k \in Kinds : UnsubscribeEvents(1, k)
    \/ Destroyed(1)
    \/ \E k \in Kinds, effectThrows \in BOOLEAN : FireEvent(k, {}, effectThrows)
    \/ InitSdk
    \/ \E r \in BagToSet(inflight), ok \in BOOLEAN : InitSdkSettled(r, ok)
    \/ ShutdownSdk
    \/ \E r \in BagToSet(inflight), ok \in BOOLEAN : ShutdownSdkSettled(r, ok)
    \/ \E partial \in PermissionPartials : SetConfig(partial)
    \/ \E r \in BagToSet(inflight), ok \in BOOLEAN : SetConfigShutdownSettled(r, ok)
    \/ \E r \in BagToSet(inflight), ok \in BOOLEAN : SetConfigInitSettled(r, ok)

SpecDispatch == Init /\ [][NextDispatch]_vars

\* The client library of the renderer of webContents 1, with or without the
\* plugin's API, and main's handling of the invokes it sends.
NextClient ==
    \/ \E preferences \in EnabledOnlyPreferences : PluginEntry(preferences)
    \/ \E present \in BOOLEAN : NewClient(present)
    \/ \E op \in ClientOps : ClientThrows(op)
    \/ IsAvailable
    \/ \E k \in Kinds : AddEventListener(k)
    \/ \E h \in 1..MaxListeners : Unsubscribe(h)
    \/ RemoveAllEventListeners
    \/ ClientShutdownSdk
    \/ HandleInvoke
    \/ HandleShutdownInvoke
    \/ \E r \in BagToSet(inflight), ok \in BOOLEAN : ShutdownSdkSettled(r, ok)

SpecClient == Init /\ [][NextClient]_vars

\* Every step of the main process.
Next ==
    NextHub \/ NextLifecycle \/ NextHandlers \/ NextListeners \/ NextConfig \/ NextRenderer
        \/ NextClient \/ NextDispatch \/ NextExample

Spec == Init /\ [][Next]_vars

(***************************************************************************)
(* Properties of the subscription hub (checked under SpecHub).             *)
(***************************************************************************)

\* The latest step was the provider emitting an event.
EventFired == out.op = "event"

\* C1: for every consumer c and kind k, whatever subscribe/unsubscribe
\* calls c has made on k, a provider-fired k is delivered to c exactly once
\* while c's net subscription count for k is > 0 and c is connected (its
\* wc.send does not throw), and not at all once the count is 0.
C1_ExactlyOncePerEvent ==
    EventFired =>
        \A c \in Consumers :
            /\ (netCount[c][out.kind] > 0 /\ wcState[c] = "alive" /\ c \notin out.failed)
                   => out.delivered[c] = 1
            /\ netCount[c][out.kind] = 0 => out.delivered[c] = 0

\* An event reached a consumer holding one reference and skipped a tracked
\* consumer whose count had gone back to 0.
C1_Witness ==
    /\ EventFired
    /\ \E c \in Consumers :
          /\ netCount[c][out.kind] = 1
          /\ Count(subscriptions, out.kind, c) = 1
          /\ out.delivered[c] = 1
    /\ \E c \in Consumers :
          /\ c \in trackedWebContents
          /\ out.kind \in DOMAIN subscriptions
          /\ netCount[c][out.kind] = 0
          /\ out.delivered[c] = 0

\* C2: once a consumer's 'destroyed' callback has run, the consumer is in
\* no kind's subscriber map and is not tracked, and an event the provider
\* fires afterwards is not delivered to it.
C2_NothingAfterDisconnect ==
    \A c \in Consumers :
        wcState[c] = "destroyed" =>
            /\ c \notin trackedWebContents
            /\ \A k \in DOMAIN subscriptions : c \notin DOMAIN subscriptions[k]
            /\ EventFired => out.delivered[c] = 0

\* A consumer that had subscribed to the fired kind (nobody else ever
\* subscribed) was destroyed, and the event was then handled and not
\* delivered to it.
C2_Witness ==
    /\ EventFired
    /\ out.handled = 1
    /\ \E c \in Consumers :
          /\ wcState[c] = "destroyed"
          /\ out.delivered[c] = 0
          /\ \A d \in Consumers \ {c} : wcState[d] = "alive" /\ d \notin trackedWebContents

\* C3: RecallAiSdk.addEventListener is called at most once per kind, over
\* any sequence of subscribes, unsubscribes and disconnects.
C3_AtMostOneUpstreamListener ==
    \A k \in Kinds : providerListeners[k] <= 1

\* Several subscribes to one kind, by every consumer, left one listener.
C3_Witness ==
    \E k \in Kinds :
        /\ providerListeners[k] = 1
        /\ \A c \in Consumers : Count(subscriptions, k, c) = MaxCount

\* C8: a subscribe or an unsubscribe by consumer c on kind k changes no
\* reference count but that of (k, c); hence with c1 unsubscribed and c2
\* still subscribed, a fired k is delivered to c2 and not to c1.
C8_OnlyOwnCountChanges ==
    /\ [][\A c \in Consumers, k \in Kinds :
            (/\ out'.op \in {"subscribeEvents", "unsubscribeEvents"}
             /\ out'.kind = k
             /\ SubscribeEvents(c, k) \/ UnsubscribeEvents(c, k)) =>
                \A d \in Consumers, j \in Kinds :
                    <<d, j>> # <<c, k>> =>
                        Count(subscriptions', j, d) = Count(subscriptions, j, d)]_vars
    /\ [](EventFired =>
            \A c \in Consumers, d \in Consumers :
                (/\ netCount[c][out.kind] = 0
                 /\ netCount[d][out.kind] > 0
                 /\ d \notin out.failed) =>
                    out.delivered[c] = 0 /\ out.delivered[d] = 1)

\* Two consumers subscribed to a kind, one unsubscribed, and the next event
\* of that kind went to the other one only.
C8_Witness ==
    /\ EventFired
    /\ \E c \in Consumers, d \in Consumers :
          /\ c # d
          /\ c \in trackedWebContents
          /\ netCount[c][out.kind] = 0
          /\ netCount[d][out.kind] = 1
          /\ out.delivered[c] = 0
          /\ out.delivered[d] = 1

(***************************************************************************)
(* Properties of the lifecycle controller (checked under SpecLifecycle).   *)
(***************************************************************************)

\* The provider init calls that are in flight.
InitCallsInFlight == { r \in BagToSet(inflight) : r.pc = "init" }

\* C4: when shutdownSdk has completed, sdkInitialized is false, also when
\* the provider's shutdown call failed.
C4_ShutdownLeavesUninitialized ==
    out.op = "shutdownSdk" => ~sdkInitialized

C7_ShutdownEventClearsReady ==
    (EventFired /\ out.kind = "shutdown") => ~sdkInitialized

\* C9: at most one provider init call is in flight at any time.
C9_AtMostOneInitOutstanding ==
    /\ Cardinality(InitCallsInFlight) <= 1
    /\ \A r \in InitCallsInFlight : CopiesIn(r, inflight) = 1

\* C10: when the provider's init call fails during initSdk, sdkInitialized
\* is false and the reply is {success: false, "SDK initialization failed"}.
C10_InitFailureLeavesUninitialized ==
    (out.op = "initSdk" /\ out.rejected = "init") =>
        /\ ~sdkInitialized
        /\ ~out.success
        /\ out.message = "SDK initialization failed"

\* C11: when the init call of a setConfig-triggered reinitialization fails
\* (its shutdown call having succeeded), setConfig returns {success: false}
\* and sdkInitialized is false: the state is not left Ready with the
\* provider shut down and not re-initialized.
C11_FailedReinitNotLeftReady ==
    (out.op = "setConfig" /\ out.rejected = "init") =>
        /\ ~out.success
        /\ out.calls = <<"shutdown", "init">>
        /\ ~sdkInitialized

\* C12: initSdk issued while sdkInitialized is true and the plugin is
\* enabled returns {success: true, "SDK already initialized"}, calls no
\* provider init and leaves sdkInitialized true.
C12_InitWhileReadyIsNoOp ==
    [][(config.enabled /\ sdkInitialized /\ InitSdk) =>
          /\ out'.op = "initSdk"
          /\ out'.success
          /\ out'.message = "SDK already initialized"
          /\ out'.calls = <<>>
          /\ inflight' = inflight
          /\ sdkInitialized']_vars

\* initSdk was answered "SDK already initialized" with nothing in flight.
C12_Witness ==
    /\ out.op = "initSdk"
    /\ out.success
    /\ out.message = "SDK already initialized"
    /\ out.ready
    /\ config.enabled
    /\ sdkInitialized
    /\ inflight = EmptyBag

\* C13: shutdownSdk issued while sdkInitialized is false makes no provider
\* shutdown call, neither in flight nor completed.
C13_ShutdownWhileUninitializedIsNoOp ==
    /\ \A r \in BagToSet(inflight) :
          (r.op = "shutdownSdk" /\ ~r.ready) => r.calls = <<>>
    /\ (out.op = "shutdownSdk" /\ ~out.ready) =>
          (out.calls = <<>> /\ ~sdkInitialized)

(***************************************************************************)
(* Properties of the request handlers (checked under SpecHandlers).        *)
(***************************************************************************)

\* C14: a recording operation issued while sdkInitialized is false makes no
\* provider call and returns {success: false}.
C14_RecordingOnlyWhileReady ==
    /\ \A r \in BagToSet(inflight) : r.op \in RecordingOps => r.ready
    /\ (out.op \in RecordingOps /\ ~out.ready) =>
          (~out.success /\ out.calls = <<>>)

\* The client-facing request handlers, named as the client calls them.
HandlerOps ==
    {"subscribeEvents", "unsubscribeEvents", "initSdk", "shutdownSdk", "setConfig"}
        \cup RecordingOps \cup UngatedOps

\* The step completed the invocation r: one copy of r left the awaiting
\* handlers and no invocation with further provider calls took its place.
Completes(r) ==
    /\ CopiesIn(r, inflight') < CopiesIn(r, inflight)
    /\ \A n \in BagToSet(inflight') :
          CopiesIn(n, inflight') > CopiesIn(n, inflight) => n.op # r.op

\* C15: a rejected provider call is reported by the handler that made it
\* as {success: false, message} (never as an exception leaving the
\* handler), and the step in which a handler's last provider call settles
\* produces that handler's result.
C15_FailuresBecomeResults ==
    /\ [](out.op # "none" /\ out.op # "event" =>
            /\ out.op \in HandlerOps
            /\ out.message # ""
            /\ out.rejected # "" => ~out.success)
    /\ [][\A r \in BagToSet(inflight) :
            Completes(r) =>
                /\ out'.op = r.op
                /\ out'.calls = r.calls
                /\ out'.message # ""]_vars

\* A permission request came back as a failure result after the provider
\* rejected the call.
C15_Witness ==
    /\ out.op = "requestPermission"
    /\ out.rejected = "requestPermission"
    /\ ~out.success
    /\ out.message = "Failed to request permission"
    /\ inflight = EmptyBag

(***************************************************************************)
(* Properties of the broadcast dispatcher.                                 *)
(***************************************************************************)

\* C16: when a provider event is handled, the side effect of its kind has
\* run (to completion or to its failure) before the fan-out starts; a
\* shutdown payload is sent to subscribers with sdkInitialized already
\* false.  (Checked under SpecLifecycle.)
C16_SideEffectBeforeDelivery ==
    (EventFired /\ out.handled > 0) =>
        /\ out.steps = IF hasSideEffect(out.kind)
                       THEN <<"sideEffect", "broadcast">> ELSE <<"broadcast">>
        /\ out.kind = "shutdown" => (~out.readyAtSend /\ ~sdkInitialized)

\* A shutdown event arrived while sdkInitialized was true and reached its
\* subscriber after the flag had been cleared.
C16_Witness ==
    /\ EventFired
    /\ out.kind = "shutdown"
    /\ out.ready
    /\ out.delivered[1] = 1
    /\ out.steps = <<"sideEffect", "broadcast">>
    /\ ~out.readyAtSend
    /\ ~sdkInitialized

\* C17: when the side effect of an event's kind throws, the event is still
\* delivered exactly once to every consumer that is subscribed to the kind
\* and connected.  (Checked under SpecHub.)
C17_SideEffectFailureStillDelivers ==
    (EventFired /\ out.effectFailed) =>
        /\ out.steps = <<"sideEffect", "broadcast">>
        /\ \A c \in Consumers :
              (netCount[c][out.kind] > 0 /\ wcState[c] = "alive" /\ c \notin out.failed)
                  => out.delivered[c] = 1

\* The shutdown side effect threw and every consumer, all subscribed, got
\* the event.
C17_Witness ==
    /\ EventFired
    /\ out.effectFailed
    /\ out.kind = "shutdown"
    /\ \A c \in Consumers : netCount[c]["shutdown"] > 0 /\ out.delivered[c] = 1

\* C18: when wc.send throws for some consumers during the fan-out of an
\* event, every other consumer that is subscribed to the kind and
\* connected still receives the payload exactly once, the failing ones
\* receive nothing, and the fan-out changes neither the subscription
\* registry nor the tracked consumers.  (Checked under SpecHub.)
C18_SendFailureDoesNotAbortFanOut ==
    /\ [](EventFired /\ out.failed # {} =>
            \A c \in Consumers :
                out.delivered[c] =
                    IF c \in sendTargets(subscriptions, trackedWebContents, out.kind)
                            \ out.failed
                    THEN 1 ELSE 0)
    /\ [][out'.op = "event" =>
            /\ subscriptions' = subscriptions
            /\ trackedWebContents' = trackedWebContents]_vars

\* The send to one subscribed consumer threw and another subscribed
\* consumer received the event; both are still registered.
C18_Witness ==
    /\ EventFired
    /\ \E c \in Consumers, d \in Consumers :
          /\ c # d
          /\ c \in out.failed
          /\ out.delivered[c] = 0
          /\ out.delivered[d] = 1
          /\ Count(subscriptions, out.kind, c) > 0
          /\ Count(subscriptions, out.kind, d) > 0

\* C19: a consumer has one 'destroyed' callback registered while it is
\* tracked and none otherwise, however many subscribes it made and on
\* however many kinds.  (Checked under SpecHub.)
C19_OneDisconnectCallbackPerConsumer ==
    \A c \in Consumers :
        destroyedListeners[c] = IF c \in trackedWebContents THEN 1 ELSE 0

\* A consumer subscribed MaxCount times to every kind and has one callback.
C19_Witness ==
    \E c \in Consumers :
        /\ \A k \in Kinds : Count(subscriptions, k, c) = MaxCount
        /\ destroyedListeners[c] = 1

\* C20: an unsubscribe for a (kind, consumer) pair that has no entry
\* returns {success: true} and leaves the subscription registry, the
\* tracked consumers and the upstream listeners as they were.  (Checked
\* under SpecHub.)
C20_UnsubscribeWithoutEntryIsNoOp ==
    [][\A c \in Consumers, k \in Kinds :
          (/\ out'.op = "unsubscribeEvents"
           /\ out'.kind = k
           /\ Count(subscriptions, k, c) = 0
           /\ UnsubscribeEvents(c, k)) =>
              /\ out'.success
              /\ subscriptions' = subscriptions
              /\ \A d \in Consumers, j \in Kinds :
                    (j \in DOMAIN subscriptions' /\ d \in DOMAIN subscriptions'[j])
                        <=> Count(subscriptions, j, d) > 0
              /\ trackedWebContents' = trackedWebContents
              /\ destroyedListeners' = destroyedListeners
              /\ sdkEventHandlers' = sdkEventHandlers
              /\ providerListeners' = providerListeners]_vars

\* A consumer that never subscribed to anything unsubscribed from a kind
\* on which another consumer holds MaxCount references (so the reply is
\* not to that other consumer's unsubscribe), with the upstream listener bound.
C20_Witness ==
    /\ out.op = "unsubscribeEvents"
    /\ out.success
    /\ providerListeners[out.kind] = 1
    /\ \E c \in Consumers :
          /\ Count(subscriptions, out.kind, c) = MaxCount
          /\ \A d \in Consumers \ {c} :
                /\ wcState[d] = "alive"
                /\ d \notin trackedWebContents
                /\ destroyedListeners[d] = 0

\* C21: every (kind, consumer) entry of the subscription registry has a
\* count >= 1; a subscribe raises the sender's count for the kind by one
\* (an absent entry counting as 0), an unsubscribe lowers it by one, and
\* the entry is absent, not kept at 0, once the count is 0.  (Checked under
\* SpecHub.)
C21_CountsAtLeastOne ==
    /\ [](\A k \in DOMAIN subscriptions :
            \A c \in DOMAIN subscriptions[k] : subscriptions[k][c] >= 1)
    /\ [][\A c \in Consumers, k \in Kinds :
            /\ (/\ out'.op = "subscribeEvents"
                /\ out'.kind = k
                /\ SubscribeEvents(c, k)) =>
                   Count(subscriptions', k, c) = Count(subscriptions, k, c) + 1
            /\ (/\ out'.op = "unsubscribeEvents"
                /\ out'.kind = k
                /\ UnsubscribeEvents(c, k)) =>
                   /\ Count(subscriptions, k, c) > 0 =>
                         Count(subscriptions', k, c) = Count(subscriptions, k, c) - 1
                   /\ (Count(subscriptions, k, c) <= 1 /\ k \in DOMAIN subscriptions') =>
                         c \notin DOMAIN subscriptions'[k]]_vars

\* An unsubscribe took a tracked consumer's last reference: its entry is
\* gone from the kind's map, where another consumer holds MaxCount references.
C21_Witness ==
    /\ out.op = "unsubscribeEvents"
    /\ out.kind \in DOMAIN subscriptions
    /\ \E c \in Consumers, d \in Consumers :
          /\ c \in trackedWebContents
          /\ c \notin DOMAIN subscriptions[out.kind]
          /\ \A k \in Kinds : netCount[c][k] = 0
          /\ d \in DOMAIN subscriptions[out.kind]
          /\ subscriptions[out.kind][d] = MaxCount

\* C22: an upstream listener, once registered for a kind, stays registered
\* over every step: unsubscribes, disconnects, initSdk, shutdownSdk and
\* setConfig included.  (Checked under SpecListeners.)
C22_UpstreamListenerNeverRemoved ==
    [][\A k \in Kinds :
          /\ k \in sdkEventHandlers => k \in sdkEventHandlers'
          /\ providerListeners'[k] >= providerListeners[k]]_vars

\* The only consumer subscribed to both kinds and disconnected, and a
\* shutdownSdk completed: both upstream listeners are still registered
\* with no subscriber left.
C22_Witness ==
    /\ out.op = "shutdownSdk"
    /\ out.success
    /\ wcState[1] = "destroyed"
    /\ trackedWebContents = {}
    /\ \A k \in Kinds :
          /\ k \in sdkEventHandlers
          /\ providerListeners[k] = 1
          /\ subscriptions[k] = EmptyMap

(***************************************************************************)
(* Properties of the configuration store (checked under SpecConfig).       *)
(***************************************************************************)

\* The partial names the endpoint or requestPermissionsOnStartup.
TouchesProviderSettings(partial) ==
    partial.apiUrl # <<>> \/ partial.requestPermissionsOnStartup # <<>>

\* The step put a setConfig invocation awaiting the provider's shutdown.
StartsReinit ==
    \E r \in BagToSet(inflight') :
        /\ r.op = "setConfig"
        /\ r.pc = "shutdown"
        /\ CopiesIn(r, inflight') > CopiesIn(r, inflight)

\* C23: a setConfig issued while sdkInitialized is true calls the
\* provider's shutdown (to be followed by init) if and only if its partial
\* names apiUrl or requestPermissionsOnStartup.
C23_ReinitIffSettingsTouched ==
    [][\A partial \in Partials :
          (sdkInitialized /\ SetConfig(partial)) =>
              (StartsReinit <=> TouchesProviderSettings(partial))]_vars

\* Every field of the partial that is present has its value in cfg.
Applied(cfg, partial) ==
    /\ partial.enabled # <<>> => cfg.enabled = partial.enabled[1]
    /\ partial.apiUrl # <<>> => cfg.apiUrl = partial.apiUrl[1]
    /\ partial.requestPermissionsOnStartup # <<>> =>
          cfg.requestPermissionsOnStartup = partial.requestPermissionsOnStartup[1]

\* Every field of the partial that is absent has the same value in cfg and old.
Kept(cfg, old, partial) ==
    /\ partial.enabled = <<>> => cfg.enabled = old.enabled
    /\ partial.apiUrl = <<>> => cfg.apiUrl = old.apiUrl
    /\ partial.requestPermissionsOnStartup = <<>> =>
          cfg.requestPermissionsOnStartup = old.requestPermissionsOnStartup

\* C24: after setConfig(partial) the stored configuration has the
\* partial's value in every field the partial names and its previous value
\* in every other field, and the update changes neither sdkInitialized nor
\* the handlers' registration.
C24_UpdateIsMerge ==
    [][\A partial \in Partials :
          SetConfig(partial) =>
              /\ Applied(config', partial)
              /\ Kept(config', config, partial)
              /\ sdkInitialized' = sdkInitialized
              /\ isInitialized' = isInitialized]_vars

\* A setConfig that named neither apiUrl nor requestPermissionsOnStartup
\* (it made no provider call while Ready) left both at the non-default
\* values earlier updates had given them.
C24_Witness ==
    /\ out.op = "setConfig"
    /\ out.ready
    /\ out.calls = <<>>
    /\ out.chg = "absent"
    /\ ~config.enabled
    /\ config.apiUrl = "https://eu-central-1.recall.ai"
    /\ ~config.requestPermissionsOnStartup

\* C25: setConfig writes its partial to the store in the step that
\* receives it, whether sdkInitialized is true or false and before the
\* provider's shutdown is awaited; no later step of a setConfig, its
\* failure reply included, changes the stored configuration.
C25_ConfigAppliedEvenIfReinitFails ==
    /\ [][\A partial \in Partials :
            SetConfig(partial) => Applied(config', partial)]_vars
    /\ [][\A r \in BagToSet(inflight) :
            (r.op = "setConfig" /\ CopiesIn(r, inflight') < CopiesIn(r, inflight))
                => config' = config]_vars

\* A setConfig that changed the endpoint while Ready came back as a
\* failure of its init call, and the new endpoint is the stored one.
C25_Witness ==
    /\ out.op = "setConfig"
    /\ ~out.success
    /\ out.rejected = "init"
    /\ out.chg = "changed"
    /\ config.apiUrl = "https://eu-central-1.recall.ai"
    /\ inflight = EmptyBag

\* C26: the options of every RecallAiSdk.init call are those of the
\* configuration stored when the call is made: apiUrl is the stored
\* apiUrl, and the permission set {accessibility, screen-capture,
\* microphone, system-audio} is passed exactly when
\* requestPermissionsOnStartup is true.
C26_InitUsesCurrentConfig ==
    out.initCall # <<>> =>
        /\ out.initCall[1].apiUrl = config.apiUrl
        /\ out.initCall[1].acquirePermissionsOnStartup =
              IF config.requestPermissionsOnStartup
              THEN <<{"accessibility", "screen-capture", "microphone", "system-audio"}>>
              ELSE <<>>

\* An initSdk issued before the SDK was ever initialized calls init with
\* the endpoint and the permission flag that a setConfig had stored.
C26_Witness ==
    /\ out.initCall # <<>>
    /\ out.initCall[1].apiUrl = "https://eu-central-1.recall.ai"
    /\ out.initCall[1].acquirePermissionsOnStartup = <<>>
    /\ ~sdkInitialized
    /\ \E r \in BagToSet(inflight) : r.op = "initSdk" /\ ~r.ready
    /\ BagCardinality(inflight) = 1

\* The provider init and shutdown calls that are in flight.
LifecycleCallsInFlight ==
    { r \in BagToSet(inflight) : r.pc \in {"init", "shutdown"} }

\* C29: no provider init or shutdown call is issued while another one is
\* in flight: at most one such call is outstanding at any time, whichever
\* of initSdk, shutdownSdk and setConfig issued it.  (Checked under
\* SpecLifecycle.)
C29_LifecycleCallsSerialized ==
    /\ Cardinality(LifecycleCallsInFlight) <= 1
    /\ \A r \in LifecycleCallsInFlight : CopiesIn(r, inflight) = 1

\* C28: a handled event of kind K is sent on the channel keyed by K, and
\* to no consumer without an entry in K's subscriber map, whatever
\* entries it has for other kinds.  (Checked under SpecHub.)
C28_OnlySubscribersOfTheKind ==
    (EventFired /\ out.handled > 0) =>
        /\ out.channel = "recall-desktop:event:" \o out.kind
        /\ \A k \in Kinds \ {out.kind} : out.channel # "recall-desktop:event:" \o k
        /\ \A c \in Consumers :
              Count(subscriptions, out.kind, c) = 0 => out.delivered[c] = 0

\* An event went to the consumer subscribed to its kind and not to a
\* connected consumer subscribed to the other kind only.
C28_Witness ==
    /\ EventFired
    /\ \E c \in Consumers, d \in Consumers, j \in Kinds :
          /\ j # out.kind
          /\ Count(subscriptions, j, c) > 0
          /\ Count(subscriptions, out.kind, c) = 0
          /\ c \in trackedWebContents
          /\ c \notin out.failed
          /\ out.delivered[c] = 0
          /\ Count(subscriptions, out.kind, d) > 0
          /\ out.delivered[d] = 1

(***************************************************************************)
(* Properties of the renderer side (checked under SpecRenderer).           *)
(***************************************************************************)

\* The count a kind's entry has after the given subscribe/unsubscribe
\* invokes were applied one after the other (0: no entry).
RECURSIVE ReplayCount(_, _)
ReplayCount(invokes, k) ==
    IF invokes = <<>> THEN 0
    ELSE LET n == Len(invokes)
             prev == ReplayCount(SubSeq(invokes, 1, n - 1), k)
         IN  IF invokes[n].kind # k THEN prev
             ELSE IF invokes[n].channel = "subscribe-events" THEN prev + 1
             ELSE IF prev = 0 THEN 0 ELSE prev - 1

C30_UnsubscribeOncePerTrackedListener ==
    [][/\ \A h \in 1..MaxListeners :
            (h \in DOMAIN clientListeners /\ Unsubscribe(h)) =>
                /\ clientListeners'[h].unsubscribed = clientListeners[h].unsubscribed + 1
                /\ ~clientListeners'[h].tracked
                /\ \A g \in DOMAIN clientListeners \ {h} :
                      clientListeners'[g] = clientListeners[g]
       /\ RemoveAllEventListeners =>
            \A h \in DOMAIN clientListeners :
                /\ clientListeners'[h].unsubscribed =
                      clientListeners[h].unsubscribed
                          + (IF clientListeners[h].tracked THEN 1 ELSE 0)
                /\ ~clientListeners'[h].tracked]_vars

\* Of two listeners on different kinds, the first was removed through its
\* own function and the second by a later removeAllEventListeners: each
\* underlying unsubscribe was called once and nothing is tracked.
C30_Witness ==
    /\ Len(clientListeners) = 2
    /\ clientListeners[1].kind # clientListeners[2].kind
    /\ \A h \in DOMAIN clientListeners :
          clientListeners[h].unsubscribed = 1 /\ ~clientListeners[h].tracked
    /\ Len(issued) = 4
    /\ issued[3].by = "unsubscribe"
    /\ issued[3].kind = clientListeners[1].kind
    /\ issued[4].by = "removeAllEventListeners"
    /\ issued[4].kind = clientListeners[2].kind


(***************************************************************************)
(* Properties of the client library (checked under SpecClient).            *)
(***************************************************************************)

\* C31: while the client's API is absent, isAvailable() answers false, every
\* guarded method throws the "not available" error, and no step sends an
\* invoke for the client or changes its listener tracking.
C31_UnavailableClientOnlyThrows ==
    /\ [](clientApi = "null" =>
            /\ ~isAvailable(clientApi)
            /\ \A op \in ClientOps : clientCall(clientApi, op) = "throw"
            /\ (out.rejected = "client" => ~out.success /\ out.message = NotAvailable)
            /\ (out.op = "isAvailable" => ~out.success))
    /\ [][clientApi = "null" =>
            /\ issued' = issued
            /\ clientListeners' = clientListeners
            /\ (out'.rejected = "client" =>
                    /\ ipcQueue' = ipcQueue
                    /\ inflight' = inflight
                    /\ clientApi' = clientApi)]_vars

\* addEventListener was called on a client without the API and threw.
C31_Witness ==
    /\ clientApi = "null"
    /\ out.op = "addEventListener"
    /\ out.rejected = "client"
    /\ out.message = NotAvailable
    /\ clientListeners = <<>>
    /\ isInitialized


\* The listeners still in eventUnsubscribers.
Tracked(listeners) == { h \in DOMAIN listeners : listeners[h].tracked }

\* C32: a client.shutdownSdk() step calls the underlying unsubscribe of every
\* listener still tracked, once each, leaves none tracked, and sends the
\* resulting unsubscribe invokes before its shutdown invoke, which is the
\* last thing it sends.
C32_CleanupBeforeShutdownRequest ==
    [][Len(ShutdownInvokes(issued')) > Len(ShutdownInvokes(issued)) =>
          LET new == SubSeq(issued', Len(issued) + 1, Len(issued'))
              tracked == Tracked(clientListeners)
          IN  /\ Len(new) = Cardinality(tracked) + 1
              /\ new[Len(new)].channel = "shutdown-sdk"
              /\ \A i \in 1..(Len(new) - 1) : new[i].channel = "unsubscribe-events"
              /\ \A k \in Kinds :
                    Cardinality({ i \in 1..(Len(new) - 1) : new[i].kind = k })
                       = Cardinality({ h \in tracked : clientListeners[h].kind = k })
              /\ Tracked(clientListeners') = {}
              /\ \A h \in DOMAIN clientListeners :
                    clientListeners'[h].unsubscribed
                       = clientListeners[h].unsubscribed + (IF h \in tracked THEN 1 ELSE 0)
              /\ ipcQueue' = ipcQueue \o [i \in DOMAIN new |-> Invoke(new[i].channel, new[i].kind)]
      ]_vars

\* shutdownSdk was called with two listeners tracked: its two unsubscribe
\* invokes and then its shutdown invoke are the last three invokes sent.
C32_Witness ==
    /\ Len(issued) >= 5
    /\ issued[Len(issued)].channel = "shutdown-sdk"
    /\ \A i \in (Len(issued) - 2)..Len(issued) : issued[i].by = "shutdownSdk"
    /\ issued[Len(issued) - 1].channel = "unsubscribe-events"
    /\ issued[Len(issued) - 2].channel = "unsubscribe-events"
    /\ Tracked(clientListeners) = {}


(***************************************************************************)
(* Registry invariants of the hub (checked under SpecHub).                 *)
(***************************************************************************)

\* The consumers with an entry in the subscriber map of kind k.
Subscribers(k) == IF k \in DOMAIN subscriptions THEN DOMAIN subscriptions[k] ELSE {}

\* C33: every kind that has a subscribed consumer has its handler in
\* sdkEventHandlers and registered with the provider, and this already holds
\* in the state in which a subscribe call for the kind returns.
C33_SubscribedKindHasUpstreamListener ==
    /\ \A k \in Kinds :
          Subscribers(k) # {} => k \in sdkEventHandlers /\ providerListeners[k] >= 1
    /\ out.op = "subscribeEvents" =>
          out.kind \in sdkEventHandlers /\ providerListeners[out.kind] >= 1

\* A subscribe call for a kind has just returned, the kind's listener is
\* bound, and the other kind has neither subscribers nor a listener.
C33_Witness ==
    /\ out.op = "subscribeEvents"
    /\ out.kind = "recording-started"
    /\ Subscribers("recording-started") # {}
    /\ providerListeners["recording-started"] = 1
    /\ Subscribers("shutdown") = {}
    /\ "shutdown" \notin sdkEventHandlers

\* C34: every consumer with an entry in some kind's subscriber map is in
\* trackedWebContents and has its disconnect callback registered, so the
\* fan-out targets of a kind are exactly its subscribers.
C34_SubscribersAreTracked ==
    \A k \in Kinds :
        /\ \A c \in Subscribers(k) : c \in trackedWebContents /\ destroyedListeners[c] = 1
        /\ sendTargets(subscriptions, trackedWebContents, k) = Subscribers(k)

\* One consumer is subscribed and tracked after another, also subscribed to
\* the kind, was destroyed and cleaned up.
C34_Witness ==
    /\ wcState[2] = "destroyed"
    /\ 2 \notin trackedWebContents
    /\ Subscribers("shutdown") = {1}
    /\ 1 \in trackedWebContents
    /\ destroyedListeners[1] = 1


(***************************************************************************)
(* The hub and the lifecycle together (checked under SpecDispatch).        *)
(***************************************************************************)

\* C35: a provider event is processed only for a kind whose handler is
\* bound; a handler is bound, and registered with the provider, only in a
\* subscribe step for its kind; and an event step clears sdkInitialized only
\* if it is a shutdown event processed by the bound shutdown handler.
C35_ProcessedOnlyIfBoundBySubscribe ==
    /\ [](out.op = "event" =>
            IF out.kind \in sdkEventHandlers
            THEN out.handled = 1
            ELSE /\ out.handled = 0
                 /\ out.steps = <<>>
                 /\ out.delivered = NoDelivery)
    /\ [][\A k \in Kinds :
            (k \in sdkEventHandlers' \ sdkEventHandlers
                \/ providerListeners'[k] > providerListeners[k])
            => out'.op = "subscribeEvents" /\ out'.kind = k]_vars
    /\ [][(out'.op = "event" /\ sdkInitialized' # sdkInitialized) =>
            /\ out'.kind = "shutdown"
            /\ "shutdown" \in sdkEventHandlers
            /\ out'.handled = 1]_vars

\* The provider emitted shutdown while Ready and nobody had ever subscribed
\* to shutdown (another kind is bound): the event was not processed and the
\* SDK is still marked initialized.
C35_Witness ==
    /\ out.op = "event"
    /\ out.kind = "shutdown"
    /\ out.handled = 0
    /\ out.ready
    /\ sdkInitialized
    /\ sdkEventHandlers = {"recording-started"}

\* The operations of the lifecycle handlers.
LifecycleOps == {"initSdk", "shutdownSdk", "setConfig"}

\* C36: a step of initSdk, shutdownSdk or setConfig (a reinitialization
\* included) and a provider shutdown event leave the subscription registry,
\* the tracked consumers and the bound listeners unchanged; subscribe,
\* unsubscribe, disconnect and non-shutdown events leave the configuration,
\* sdkInitialized and the calls in flight unchanged.
C36_HubAndLifecycleFrames ==
    /\ [][(\/ inflight' # inflight
           \/ out'.op \in LifecycleOps
           \/ config' # config
           \/ (out'.op = "event" /\ out'.kind = "shutdown"))
          => UNCHANGED <<subscriptions, trackedWebContents, sdkEventHandlers,
                         providerListeners, destroyedListeners>>]_vars
    /\ [][(\/ out'.op \in {"subscribeEvents", "unsubscribeEvents"}
           \/ wcState' # wcState
           \/ (out'.op = "event" /\ out'.kind # "shutdown"))
          => UNCHANGED <<config, sdkInitialized, inflight>>]_vars

\* A non-shutdown event was processed and delivered while the SDK is
\* initialized and a lifecycle call is in flight.
C36_Witness ==
    /\ out.op = "event"
    /\ out.kind = "recording-started"
    /\ out.handled = 1
    /\ out.delivered[1] = 1
    /\ sdkInitialized
    /\ inflight # EmptyBag


(***************************************************************************)
(* Duplicate unsubscribe calls (checked under SpecRenderer).               *)
(***************************************************************************)

\* C37: whenever an event of a kind is fanned out while main has handled
\* every invoke the renderer sent and the renderer still has a listener
\* registered for that kind, the event is sent to the renderer, however
\* often the returned unsubscribe functions of other listeners were called.
C37_OtherListenerKeepsReceiving ==
    (/\ out.op = "event"
     /\ ipcQueue = <<>>
     /\ \E h \in DOMAIN clientListeners :
           clientListeners[h].on /\ clientListeners[h].kind = out.kind)
    => out.delivered[1] >= 1


(***************************************************************************)
(* Requests arriving during a reinitialization (checked under              *)
(* SpecHandlers).                                                          *)
(***************************************************************************)

\* A SET_CONFIG handler is between issuing its provider shutdown and the
\* settling of its provider init.
ReinitInFlight == \E r \in BagToSet(inflight) : r.op = "setConfig"

\* C38: while a setConfig-triggered reinitialization is in flight, no step
\* forwards a startRecording to the provider and no initSdk is answered
\* "SDK already initialized".
C38_NotReadyDuringReinit ==
    [][ReinitInFlight =>
          /\ ~(out'.op = "initSdk" /\ out'.message = "SDK already initialized")
          /\ \A r \in BagToSet(inflight') :
                r.op = "startRecording" => CopiesIn(r, inflight') <= CopiesIn(r, inflight)
      ]_vars


(***************************************************************************)
(* The example app (checked under SpecExample).                            *)
(***************************************************************************)

\* C39: for every window, at most one startRecording request has been
\* issued and not failed since the last recording-ended event for the
\* window.
C39_OneStartRecordingPerWindow == \A w \in Windows : started[w] <= 1

=============================================================================
